---- MODULE Spec2Model ----
(***************************************************************************)
(* Option<T> and Result<T, E> of ts-rust-error-handling as a state machine *)
(* over a heap of container objects.  Every container is an object with    *)
(* one private field `internal`, a tagged record; payloads are primitive   *)
(* values or references to other containers.  Each action is one call of   *)
(* a constructor or a method, and `last` records that call: the receiver,  *)
(* the arguments, what it returned or threw, and how the callback it was   *)
(* handed was invoked.  Fixed error texts are written without the source's *)
(* backquotes.                                                             *)
(***************************************************************************)
EXTENDS Integers, Sequences, FiniteSets, TLC

\* Bounds of the model: the objects on the heap when containers nest, the
\* objects the other specifications allocate, and the numbers used as payloads.
MaxNest == 3
MaxObj == 2
MaxVal == 2

ObjIds == 1..MaxNest
Nums == 1..MaxVal
Msgs == {"missing"}

VARIABLES heap, iter, last

vars == <<heap, iter, last>>

----------------------------------------------------------------------------
\* JavaScript values: a number, a reference to a container, a boolean,
\* undefined (a void return).
Num(i) == [k |-> "num", n |-> i]
Ref(o) == [k |-> "ref", n |-> o]
Bool(b) == [k |-> "bool", n |-> IF b THEN 1 ELSE 0]
Undefined == [k |-> "undefined", n |-> 0]

NumVals == {Num(i) : i \in Nums}

\* `${value}` of a template literal: the decimal digits of a number, and
\* Object.prototype.toString for a container.
Stringify(v) ==
  IF v.k = "num" THEN ToString(v.n)
  ELSE IF v.k = "ref" THEN "[object Object]"
  ELSE IF v.k = "bool" THEN (IF v.n = 1 THEN "true" ELSE "false")
  ELSE "undefined"

\* The tagged records of OptionInit<T> and ResultInit<T, E>.
NoneInit == [type |-> "None"]
SomeInit(v) == [type |-> "Some", value |-> v]
OkInit(v) == [type |-> "Ok", value |-> v]
ErrInit(e) == [type |-> "Err", error |-> e]

\* A heap slot: unused, or an object of one of the two classes.
Free == [cls |-> "free", internal |-> [type |-> "free"]]

\* The constructors copy their argument: this.internal = { ...init }.
OptionCtor(init) == [cls |-> "Option", internal |-> [f \in DOMAIN init |-> init[f]]]
ResultCtor(init) == [cls |-> "Result", internal |-> [f \in DOMAIN init |-> init[f]]]

Live(h) == {o \in ObjIds : h[o].cls # "free"}
Options(h) == {o \in ObjIds : h[o].cls = "Option"}
Results(h) == {o \in ObjIds : h[o].cls = "Result"}
Room(h, k) == Cardinality(Live(h)) + k <= MaxNest
NewId(h) == Cardinality(Live(h)) + 1
Alloc(h, obj) == [h EXCEPT ![NewId(h)] = obj]

\* Values a caller can pass: a number, or a container it holds.
Args(h) == NumVals \cup {Ref(o) : o \in Live(h)}

InstanceOf(h, v, cls) == v.k = "ref" /\ h[v.n].cls = cls

----------------------------------------------------------------------------
\* The record of a call.
NoThrow == [thrown |-> FALSE, text |-> <<>>]
Throw(text) == [thrown |-> TRUE, text |-> text]
NoFn == [calls |-> 0, arg |-> Undefined]
FnCalled(v) == [calls |-> 1, arg |-> v]

Call(op, self, arg, msg, ret, err, fn) ==
  [op |-> op, self |-> self, arg |-> arg, msg |-> msg, ret |-> ret,
   err |-> err, fn |-> fn]

\* The generator object a caller holds: the container it was made from, the
\* generator's state, what it has yielded so far, and the container's record
\* at the time of the intoIter() call.
NoIter == [obj |-> 0, state |-> "none", out |-> <<>>, snap |-> [type |-> "free"]]
IterDone == [k |-> "done", n |-> 0]

Init ==
  /\ heap = [o \in ObjIds |-> Free]
  /\ iter = NoIter
  /\ last = Call("init", 0, Undefined, "", Undefined, NoThrow, NoFn)

----------------------------------------------------------------------------
\* Option.None(), Option.Some(value), Result.Ok(value), Result.Err(error)
OptionNone ==
  /\ Room(heap, 1)
  /\ heap' = Alloc(heap, OptionCtor(NoneInit))
  /\ last' = Call("Option.None", 0, Undefined, "", Ref(NewId(heap)), NoThrow, NoFn)
  /\ UNCHANGED iter

OptionSome(value) ==
  /\ Room(heap, 1)
  /\ heap' = Alloc(heap, OptionCtor(SomeInit(value)))
  /\ last' = Call("Option.Some", 0, value, "", Ref(NewId(heap)), NoThrow, NoFn)
  /\ UNCHANGED iter

ResultOk(value) ==
  /\ Room(heap, 1)
  /\ heap' = Alloc(heap, ResultCtor(OkInit(value)))
  /\ last' = Call("Result.Ok", 0, value, "", Ref(NewId(heap)), NoThrow, NoFn)
  /\ UNCHANGED iter

ResultErr(error) ==
  /\ Room(heap, 1)
  /\ heap' = Alloc(heap, ResultCtor(ErrInit(error)))
  /\ last' = Call("Result.Err", 0, error, "", Ref(NewId(heap)), NoThrow, NoFn)
  /\ UNCHANGED iter

----------------------------------------------------------------------------
\* Querying the variant.
IsNone(h, o) == h[o].internal.type = "None"
IsSome(h, o) == h[o].internal.type = "Some"
IsOk(h, o) == h[o].internal.type = "Ok"
IsErr(h, o) == h[o].internal.type = "Err"

\* A call that changes no object: only the record of the call changes.
Pure(op, self, arg, msg, ret, err, fn) ==
  /\ last' = Call(op, self, arg, msg, ret, err, fn)
  /\ UNCHANGED <<heap, iter>>

OptionIsNone(o) ==
  Pure("Option.isNone", o, Undefined, "", Bool(IsNone(heap, o)), NoThrow, NoFn)

OptionIsSome(o) ==
  Pure("Option.isSome", o, Undefined, "", Bool(IsSome(heap, o)), NoThrow, NoFn)

ResultIsOk(o) ==
  Pure("Result.isOk", o, Undefined, "", Bool(IsOk(heap, o)), NoThrow, NoFn)

ResultIsErr(o) ==
  Pure("Result.isErr", o, Undefined, "", Bool(IsErr(heap, o)), NoThrow, NoFn)

----------------------------------------------------------------------------
\* Extracting the contained value.
OptionExpect(o, message) ==
  IF heap[o].internal.type = "None"
  THEN Pure("Option.expect", o, Undefined, message, Undefined,
            Throw(<<message>>), NoFn)
  ELSE Pure("Option.expect", o, Undefined, message, heap[o].internal.value,
            NoThrow, NoFn)

OptionUnwrap(o) ==
  IF heap[o].internal.type = "None"
  THEN Pure("Option.unwrap", o, Undefined, "", Undefined,
            Throw(<<"Called Option.unwrap() on a None value.">>), NoFn)
  ELSE Pure("Option.unwrap", o, Undefined, "", heap[o].internal.value,
            NoThrow, NoFn)

ResultExpect(o, message) ==
  IF heap[o].internal.type = "Err"
  THEN Pure("Result.expect", o, Undefined, message, Undefined,
            Throw(<<message, ": ", Stringify(heap[o].internal.error)>>), NoFn)
  ELSE Pure("Result.expect", o, Undefined, message, heap[o].internal.value,
            NoThrow, NoFn)

\* (mutant: unwrap on Err returns the error instead of throwing)
ResultUnwrapSentinel(o) ==
  Pure("Result.unwrap", o, Undefined, "",
       IF heap[o].internal.type = "Err" THEN heap[o].internal.error
       ELSE heap[o].internal.value, NoThrow, NoFn)
ResultUnwrap(o) ==
  IF heap[o].internal.type = "Err"
  THEN Pure("Result.unwrap", o, Undefined, "", Undefined,
            Throw(<<Stringify(heap[o].internal.error)>>), NoFn)
  ELSE Pure("Result.unwrap", o, Undefined, "", heap[o].internal.value,
            NoThrow, NoFn)

ResultExpectErr(o, message) ==
  IF heap[o].internal.type = "Ok"
  THEN Pure("Result.expectErr", o, Undefined, message, Undefined,
            Throw(<<message, ": ", Stringify(heap[o].internal.value)>>), NoFn)
  ELSE Pure("Result.expectErr", o, Undefined, message, heap[o].internal.error,
            NoThrow, NoFn)

ResultUnwrapErr(o) ==
  IF heap[o].internal.type = "Ok"
  THEN Pure("Result.unwrapErr", o, Undefined, "", Undefined,
            Throw(<<Stringify(heap[o].internal.value)>>), NoFn)
  ELSE Pure("Result.unwrapErr", o, Undefined, "", heap[o].internal.error,
            NoThrow, NoFn)

----------------------------------------------------------------------------
\* Transforming contained values: the conversions between the two classes.
OkOrInit(int, error) ==
  IF int.type = "None" THEN ErrInit(error) ELSE OkInit(int.value)

OptionOkOr(o, error) ==
  /\ Room(heap, 1)
  /\ heap' = Alloc(heap, ResultCtor(OkOrInit(heap[o].internal, error)))
  /\ last' = Call("Option.okOr", o, error, "", Ref(NewId(heap)), NoThrow, NoFn)
  /\ UNCHANGED iter

ErrToOptionInit(int) ==
  IF int.type = "Err" THEN SomeInit(int.error) ELSE NoneInit

ResultErrToOption(o) ==
  /\ Room(heap, 1)
  /\ heap' = Alloc(heap, OptionCtor(ErrToOptionInit(heap[o].internal)))
  /\ last' = Call("Result.err", o, Undefined, "", Ref(NewId(heap)), NoThrow, NoFn)
  /\ UNCHANGED iter

\* (mutant: ok() tests the wrong variant)
OkToOptionSwapped(int) ==
  IF int.type = "Ok" THEN NoneInit ELSE SomeInit(int.error)
OkToOptionInit(int) ==
  IF int.type = "Err" THEN NoneInit ELSE SomeInit(int.value)

ResultOkToOption(o) ==
  /\ Room(heap, 1)
  /\ heap' = Alloc(heap, OptionCtor(OkToOptionInit(heap[o].internal)))
  /\ last' = Call("Result.ok", o, Undefined, "", Ref(NewId(heap)), NoThrow, NoFn)
  /\ UNCHANGED iter

\* Result.transpose: Err makes a new Result and wraps it; Ok of an Option
\* makes one Option from the inner one; anything else throws.
ResultTranspose(o) ==
  LET int == heap[o].internal IN
  IF int.type = "Err" THEN
    /\ Room(heap, 2)
    /\ LET h1 == Alloc(heap, ResultCtor(ErrInit(int.error))) IN
         /\ heap' = Alloc(h1, OptionCtor(SomeInit(Ref(NewId(heap)))))
         /\ last' = Call("Result.transpose", o, Undefined, "", Ref(NewId(h1)),
                         NoThrow, NoFn)
    /\ UNCHANGED iter
  ELSE IF InstanceOf(heap, int.value, "Option") THEN
    /\ Room(heap, 1)
    /\ heap' = Alloc(heap, IF IsNone(heap, int.value.n)
                           THEN OptionCtor(NoneInit)
                           ELSE OptionCtor(SomeInit(heap[int.value.n].internal.value)))
    /\ last' = Call("Result.transpose", o, Undefined, "", Ref(NewId(heap)),
                    NoThrow, NoFn)
    /\ UNCHANGED iter
  ELSE
    Pure("Result.transpose", o, Undefined, "", Undefined,
         Throw(<<"Called transpose on a invalid Ok value.">>), NoFn)

\* Option.transpose: None makes a new None and wraps it in Ok; Some of a
\* Result makes one Result from the inner one; anything else throws.
OptionTranspose(o) ==
  LET int == heap[o].internal IN
  IF int.type = "None" THEN
    /\ Room(heap, 2)
    /\ LET h1 == Alloc(heap, OptionCtor(NoneInit)) IN
         /\ heap' = Alloc(h1, ResultCtor(OkInit(Ref(NewId(heap)))))
         /\ last' = Call("Option.transpose", o, Undefined, "", Ref(NewId(h1)),
                         NoThrow, NoFn)
    /\ UNCHANGED iter
  ELSE IF InstanceOf(heap, int.value, "Result") THEN
    /\ Room(heap, 1)
    /\ heap' = Alloc(heap, IF IsErr(heap, int.value.n)
                           THEN ResultCtor(ErrInit(heap[int.value.n].internal.error))
                           ELSE ResultCtor(OkInit(heap[int.value.n].internal.value)))
    /\ last' = Call("Option.transpose", o, Undefined, "", Ref(NewId(heap)),
                    NoThrow, NoFn)
    /\ UNCHANGED iter
  ELSE
    Pure("Option.transpose", o, Undefined, "", Undefined,
         Throw(<<"Called transpose on a invalid Some value.">>), NoFn)

----------------------------------------------------------------------------
\* Boolean operators of Option: each returns one of the two objects it was
\* given, never a new one.
AndRet(h, o, other) == IF h[o].internal.type = "None" THEN o ELSE other

OrRet(h, o, other) == IF h[o].internal.type = "None" THEN other ELSE o

XorRet(h, o, other) ==
  IF h[o].internal.type = "Some" /\ h[other].internal.type = "None" THEN o
  ELSE IF h[o].internal.type = "None" /\ h[other].internal.type = "Some" THEN other
  ELSE o

OptionAnd(o, other) ==
  Pure("Option.and", o, Ref(other), "", Ref(AndRet(heap, o, other)), NoThrow, NoFn)

OptionOr(o, other) ==
  Pure("Option.or", o, Ref(other), "", Ref(OrRet(heap, o, other)), NoThrow, NoFn)

OptionXor(o, other) ==
  Pure("Option.xor", o, Ref(other), "", Ref(XorRet(heap, o, other)), NoThrow, NoFn)

\* The callbacks a caller hands to andThen / orElse: one that wraps its
\* argument in a new Some, one that makes a new None, one that returns a
\* container the caller already holds.
FnVal(kind, p) == [k |-> kind, n |-> p]
OptionFns(h) ==
  {FnVal("fn:Some", 0), FnVal("fn:None", 0)} \cup {FnVal("fn:const", p) : p \in Options(h)}
OptionGetters(h) ==
  {FnVal("fn:None", 0)} \cup {FnVal("fn:const", p) : p \in Options(h)}

\* Running a callback: the heap after it and the container it returns.
FnRoom(h, fn) == fn.k = "fn:const" \/ Room(h, 1)
FnHeap(h, fn, v) ==
  IF fn.k = "fn:Some" THEN Alloc(h, OptionCtor(SomeInit(v)))
  ELSE IF fn.k = "fn:None" THEN Alloc(h, OptionCtor(NoneInit))
  ELSE IF fn.k = "fn:Ok" THEN Alloc(h, ResultCtor(OkInit(v)))
  ELSE IF fn.k = "fn:Err" THEN Alloc(h, ResultCtor(ErrInit(v)))
  ELSE h
FnRet(h, fn) == IF fn.k = "fn:const" THEN Ref(fn.n) ELSE Ref(NewId(h))

OptionAndThen(o, fn) ==
  IF heap[o].internal.type = "None"
  THEN Pure("Option.andThen", o, fn, "", Ref(o), NoThrow, NoFn)
  ELSE /\ FnRoom(heap, fn)
       /\ heap' = FnHeap(heap, fn, heap[o].internal.value)
       /\ last' = Call("Option.andThen", o, fn, "", FnRet(heap, fn), NoThrow,
                       FnCalled(heap[o].internal.value))
       /\ UNCHANGED iter

\* (mutant: orElse evaluates its getter before it tests the variant)
OptionOrElseEager(o, fn) ==
  /\ FnRoom(heap, fn)
  /\ heap' = FnHeap(heap, fn, Undefined)
  /\ last' = Call("Option.orElse", o, fn, "",
                  IF heap[o].internal.type = "None" THEN FnRet(heap, fn) ELSE Ref(o),
                  NoThrow, FnCalled(Undefined))
  /\ UNCHANGED iter
OptionOrElse(o, fn) ==
  IF heap[o].internal.type = "None"
  THEN /\ FnRoom(heap, fn)
       /\ heap' = FnHeap(heap, fn, Undefined)
       /\ last' = Call("Option.orElse", o, fn, "", FnRet(heap, fn), NoThrow,
                       FnCalled(Undefined))
       /\ UNCHANGED iter
  ELSE Pure("Option.orElse", o, fn, "", Ref(o), NoThrow, NoFn)

\* The callbacks handed to Result's andThen / orElse: one that wraps its
\* argument in a new Ok, one that wraps it in a new Err, one that returns a
\* Result the caller already holds.
ResultFns(h) ==
  {FnVal("fn:Ok", 0), FnVal("fn:Err", 0)} \cup {FnVal("fn:const", p) : p \in Results(h)}

ResultAndThen(o, fn) ==
  IF heap[o].internal.type = "Err"
  THEN Pure("Result.andThen", o, fn, "", Ref(o), NoThrow, NoFn)
  ELSE /\ FnRoom(heap, fn)
       /\ heap' = FnHeap(heap, fn, heap[o].internal.value)
       /\ last' = Call("Result.andThen", o, fn, "", FnRet(heap, fn), NoThrow,
                       FnCalled(heap[o].internal.value))
       /\ UNCHANGED iter

ResultOrElse(o, fn) ==
  IF heap[o].internal.type = "Ok"
  THEN Pure("Result.orElse", o, fn, "", Ref(o), NoThrow, NoFn)
  ELSE /\ FnRoom(heap, fn)
       /\ heap' = FnHeap(heap, fn, heap[o].internal.error)
       /\ last' = Call("Result.orElse", o, fn, "", FnRet(heap, fn), NoThrow,
                       FnCalled(heap[o].internal.error))
       /\ UNCHANGED iter

----------------------------------------------------------------------------
\* Modifying an Option in place.
InsertInternal(int, value) ==
  IF int.type = "None" THEN SomeInit(value) ELSE [int EXCEPT !.value = value]

OptionInsert(o, value) ==
  /\ heap' = [heap EXCEPT ![o].internal = InsertInternal(@, value)]
  /\ last' = Call("Option.insert", o, value, "", heap'[o].internal.value,
                  NoThrow, NoFn)
  /\ UNCHANGED iter

\* (mutant: getOrInsert overwrites like insert)
GetOrInsertOverwrites(int, value) == SomeInit(value)
GetOrInsertInternal(int, value) ==
  IF int.type = "None" THEN SomeInit(value) ELSE int

OptionGetOrInsert(o, value) ==
  /\ heap' = [heap EXCEPT ![o].internal = GetOrInsertInternal(@, value)]
  /\ last' = Call("Option.getOrInsert", o, value, "", heap'[o].internal.value,
                  NoThrow, NoFn)
  /\ UNCHANGED iter

\* insertValueFunc is () => value.
OptionGetOrInsertWith(o, value) ==
  /\ heap' = [heap EXCEPT ![o].internal = GetOrInsertInternal(@, value)]
  /\ last' = Call("Option.getOrInsertWith", o, FnVal("fn:value", value.n), "",
                  heap'[o].internal.value, NoThrow,
                  IF heap[o].internal.type = "None" THEN FnCalled(Undefined) ELSE NoFn)
  /\ UNCHANGED iter

\* take and replace hand the old record to the constructor and give the
\* receiver a new one.
\* (mutants: take leaves the receiver as it was; take clears the tag only)
TakeKeeps(int) == int
TakeClearsTag(int) == [int EXCEPT !.type = "None"]
TakeInternal(int) == NoneInit

OptionTake(o) ==
  /\ Room(heap, 1)
  /\ heap' = Alloc([heap EXCEPT ![o].internal = TakeInternal(@)],
                   OptionCtor(heap[o].internal))
  /\ last' = Call("Option.take", o, Undefined, "", Ref(NewId(heap)), NoThrow, NoFn)
  /\ UNCHANGED iter

ReplaceInternal(int, value) == SomeInit(value)

OptionReplace(o, value) ==
  /\ Room(heap, 1)
  /\ heap' = Alloc([heap EXCEPT ![o].internal = ReplaceInternal(@, value)],
                   OptionCtor(heap[o].internal))
  /\ last' = Call("Option.replace", o, value, "", Ref(NewId(heap)), NoThrow, NoFn)
  /\ UNCHANGED iter

----------------------------------------------------------------------------
\* intoIter() of either class makes a generator object and runs none of its
\* body; next() runs the body up to its yield or its end.
IntoIter(o) ==
  /\ iter' = [obj |-> o, state |-> "suspendedStart", out |-> <<>>,
              snap |-> heap[o].internal]
  /\ last' = Call(heap[o].cls \o ".intoIter", o, Undefined, "", Undefined,
                  NoThrow, NoFn)
  /\ UNCHANGED heap

\* Does the body, entered now, return at once?
IterEmpty(int) == int.type = "None" \/ int.type = "Err"

\* A generator yields only from its start: resumed after its one yield, the
\* body runs off its end.  (mutant: the body starts over when resumed)
IterRestarts(state, int) == state # "completed" /\ ~IterEmpty(int)
IterYields(state, int) == state = "suspendedStart" /\ ~IterEmpty(int)

\* The body reads this.internal when it runs, at the first next().
\* (mutant: the record is read when intoIter() is called)
IterSourceAtCall(h, it) == it.snap
IterSource(h, it) == h[it.obj].internal

IterNext ==
  /\ iter.state # "none"
  /\ LET int == IterSource(heap, iter)
         yields == IterYields(iter.state, int)
     IN /\ iter' = IF yields
                   THEN [iter EXCEPT !.state = "suspendedYield",
                                     !.out = Append(@, int.value)]
                   ELSE [iter EXCEPT !.state = "completed"]
        /\ last' = Call("Generator.next", iter.obj, Undefined, "",
                        IF yields THEN int.value ELSE IterDone, NoThrow, NoFn)
  /\ UNCHANGED heap

----------------------------------------------------------------------------
\* Options and Results of numbers: construction, the queries, extraction,
\* the conversions, the boolean operators (on two different containers) and
\* the in-place mutators.  Calls that may allocate run while fewer than
\* MaxObj objects exist.
Cap == Cardinality(Live(heap)) < MaxObj

Next ==
  \/ Cap /\ OptionNone
  \/ Cap /\ \E v \in NumVals : OptionSome(v)
  \/ Cap /\ \E v \in NumVals : ResultOk(v)
  \/ Cap /\ \E v \in NumVals : ResultErr(v)
  \/ \E o \in Options(heap) : OptionIsNone(o)
  \/ \E o \in Options(heap) : OptionIsSome(o)
  \/ \E o \in Results(heap) : ResultIsOk(o)
  \/ \E o \in Results(heap) : ResultIsErr(o)
  \/ \E o \in Options(heap), m \in Msgs : OptionExpect(o, m)
  \/ \E o \in Options(heap) : OptionUnwrap(o)
  \/ Cap /\ \E o \in Options(heap), e \in NumVals : OptionOkOr(o, e)
  \/ Cap /\ \E o \in Results(heap) : ResultErrToOption(o)
  \/ Cap /\ \E o \in Results(heap) : ResultOkToOption(o)
  \/ \E o, other \in Options(heap) : o # other /\ OptionAnd(o, other)
  \/ \E o, other \in Options(heap) : o # other /\ OptionOr(o, other)
  \/ \E o, other \in Options(heap) : o # other /\ OptionXor(o, other)
  \/ Cap /\ \E o \in Options(heap) : \E fn \in OptionFns(heap) : OptionAndThen(o, fn)
  \/ Cap /\ \E o \in Options(heap) : \E fn \in OptionGetters(heap) : OptionOrElse(o, fn)
  \/ \E o \in Options(heap), v \in NumVals : OptionInsert(o, v)
  \/ \E o \in Options(heap), v \in NumVals : OptionGetOrInsert(o, v)
  \/ \E o \in Options(heap), v \in NumVals : OptionGetOrInsertWith(o, v)
  \/ Cap /\ \E o \in Options(heap) : OptionTake(o)
  \/ Cap /\ \E o \in Options(heap), v \in NumVals : OptionReplace(o, v)

Spec == Init /\ [][Next]_vars

\* Nested containers: construction over numbers and held containers, the
\* conversions and transpositions between the two classes, and extraction.
NextNest ==
  \/ OptionNone
  \/ \E v \in Args(heap) : OptionSome(v)
  \/ \E v \in Args(heap) : ResultOk(v)
  \/ \E v \in NumVals : ResultErr(v)
  \/ \E o \in Options(heap), m \in Msgs : OptionExpect(o, m)
  \/ \E o \in Options(heap) : OptionUnwrap(o)
  \/ \E o \in Results(heap), m \in Msgs : ResultExpect(o, m)
  \/ \E o \in Results(heap) : ResultUnwrap(o)
  \/ \E o \in Results(heap), m \in Msgs : ResultExpectErr(o, m)
  \/ \E o \in Results(heap) : ResultUnwrapErr(o)
  \/ \E o \in Options(heap), e \in NumVals : OptionOkOr(o, e)
  \/ \E o \in Results(heap) : ResultErrToOption(o)
  \/ \E o \in Results(heap) : ResultOkToOption(o)
  \/ \E o \in Results(heap) : ResultTranspose(o)
  \/ \E o \in Options(heap) : OptionTranspose(o)

SpecNest == Init /\ [][NextNest]_vars

\* The iteration protocol next to the calls that can change a container
\* while a generator is held.
NextIter ==
  \/ Cap /\ OptionNone
  \/ Cap /\ \E v \in NumVals : OptionSome(v)
  \/ Cap /\ \E v \in NumVals : ResultOk(v)
  \/ Cap /\ \E v \in NumVals : ResultErr(v)
  \/ \E o \in Options(heap), v \in NumVals : OptionInsert(o, v)
  \/ \E o \in Options(heap), v \in NumVals : OptionGetOrInsert(o, v)
  \/ \E o \in Options(heap), v \in NumVals : OptionGetOrInsertWith(o, v)
  \/ Cap /\ \E o \in Options(heap) : OptionTake(o)
  \/ Cap /\ \E o \in Options(heap), v \in NumVals : OptionReplace(o, v)
  \/ \E o \in Live(heap) : IntoIter(o)
  \/ IterNext

SpecIter == Init /\ [][NextIter]_vars

\* Monadic bind on both classes.  A callback that makes a new container
\* runs while fewer than MaxObj objects exist.
NextBind ==
  \/ Cap /\ OptionNone
  \/ Cap /\ \E v \in NumVals : OptionSome(v)
  \/ Cap /\ \E v \in NumVals : ResultOk(v)
  \/ Cap /\ \E v \in NumVals : ResultErr(v)
  \/ \E o \in Options(heap) : \E fn \in OptionFns(heap) :
       (Cap \/ fn.k = "fn:const") /\ OptionAndThen(o, fn)
  \/ \E o \in Options(heap) : \E fn \in OptionGetters(heap) :
       (Cap \/ fn.k = "fn:const") /\ OptionOrElse(o, fn)
  \/ \E o \in Results(heap) : \E fn \in ResultFns(heap) :
       (Cap \/ fn.k = "fn:const") /\ ResultAndThen(o, fn)
  \/ \E o \in Results(heap) : \E fn \in ResultFns(heap) :
       (Cap \/ fn.k = "fn:const") /\ ResultOrElse(o, fn)

SpecBind == Init /\ [][NextBind]_vars
----------------------------------------------------------------------------
\* What the properties read of a step: the call it made is the one `last'`
\* records, on the heap before it (unprimed) and after it (primed).
Did(op) == last'.op = op
Mutators ==
  {"Option.insert", "Option.getOrInsert", "Option.getOrInsertWith",
   "Option.take", "Option.replace"}
Combinators ==
  {"Option.and", "Option.or", "Option.xor", "Option.andThen", "Option.orElse"}

\* v is a reference to a container of class cls whose record is int.
Holds(h, v, cls, int) == InstanceOf(h, v, cls) /\ h[v.n].internal = int

\* v is a reference to a container of class outer, in variant type, whose
\* payload is a reference to a container of class inner with record int.
HoldsNested(h, v, outer, type, inner, int) ==
  /\ InstanceOf(h, v, outer)
  /\ h[v.n].internal.type = type
  /\ Holds(h, h[v.n].internal.value, inner, int)

\* C1: a.xor(b) is the one of a, b that is Some when exactly one of them is
\* Some, and is None when both are Some or both are None.
C1_XorTable ==
  [][Did("Option.xor") =>
       LET a == heap[last'.self].internal
           b == heap[last'.arg.n].internal
       IN  /\ ~last'.err.thrown
           /\ IF a.type = "Some" /\ b.type = "None"
                THEN Holds(heap', last'.ret, "Option", a)
              ELSE IF a.type = "None" /\ b.type = "Some"
                THEN Holds(heap', last'.ret, "Option", b)
              ELSE Holds(heap', last'.ret, "Option", NoneInit)]_vars

\* C2: Result.transpose() maps Err(e) to Some(Err(e)), Ok(None) to None and
\* Ok(Some(v)) to Some(Ok(v)), and throws on an Ok whose payload is not an
\* Option.
C2_ResultTranspose ==
  [][Did("Result.transpose") =>
       LET int == heap[last'.self].internal IN
         IF int.type = "Err" THEN
           /\ ~last'.err.thrown
           /\ HoldsNested(heap', last'.ret, "Option", "Some", "Result",
                          ErrInit(int.error))
         ELSE IF ~InstanceOf(heap, int.value, "Option") THEN
           last'.err.thrown
         ELSE IF IsNone(heap, int.value.n) THEN
           /\ ~last'.err.thrown
           /\ Holds(heap', last'.ret, "Option", NoneInit)
         ELSE
           /\ ~last'.err.thrown
           /\ HoldsNested(heap', last'.ret, "Option", "Some", "Result",
                          OkInit(heap[int.value.n].internal.value))]_vars

\* C3: Option.transpose() maps None to Ok(None), Some(Ok(v)) to Ok(Some(v))
\* and Some(Err(e)) to Err(e), and throws on a Some whose payload is not a
\* Result.
C3_OptionTranspose ==
  [][Did("Option.transpose") =>
       LET int == heap[last'.self].internal IN
         IF int.type = "None" THEN
           /\ ~last'.err.thrown
           /\ HoldsNested(heap', last'.ret, "Result", "Ok", "Option", NoneInit)
         ELSE IF ~InstanceOf(heap, int.value, "Result") THEN
           last'.err.thrown
         ELSE IF IsErr(heap, int.value.n) THEN
           /\ ~last'.err.thrown
           /\ Holds(heap', last'.ret, "Result",
                    ErrInit(heap[int.value.n].internal.error))
         ELSE
           /\ ~last'.err.thrown
           /\ HoldsNested(heap', last'.ret, "Result", "Ok", "Option",
                          SomeInit(heap[int.value.n].internal.value))]_vars

\* C4: an in-place mutator applied to the container that and, or, xor,
\* andThen or orElse has just returned changes neither the receiver of that
\* call nor its `other` argument.
C4_ReturnedIsUnshared ==
  [][(/\ last.op \in Combinators
      /\ last'.op \in Mutators
      /\ last'.self = last.ret.n)
     => /\ heap'[last.self] = heap[last.self]
        /\ last.arg.k = "ref" => heap'[last.arg.n] = heap[last.arg.n]]_vars

\* Every object but those in `touched` is after the step what it was before.
Frame(touched) == \A p \in Live(heap) \ touched : heap'[p] = heap[p]
NewObject(v) == v.k = "ref" /\ v.n \notin Live(heap) /\ v.n \in Live(heap')

\* C5: o.take() returns a new container holding what o held and leaves o
\* None; o.replace(w) returns a new container holding what o held and leaves
\* o Some(w); the returned container is another object than o, and a mutator
\* changes no object but its receiver.
C5_TakeReplace ==
  [][/\ Did("Option.take") =>
          /\ NewObject(last'.ret)
          /\ Holds(heap', last'.ret, "Option", heap[last'.self].internal)
          /\ heap'[last'.self] = OptionCtor(NoneInit)
          /\ Frame({last'.self})
     /\ Did("Option.replace") =>
          /\ NewObject(last'.ret)
          /\ Holds(heap', last'.ret, "Option", heap[last'.self].internal)
          /\ heap'[last'.self] = OptionCtor(SomeInit(last'.arg))
          /\ Frame({last'.self})
     /\ last'.op \in Mutators => Frame({last'.self})]_vars

\* o.take() on Some(v) has returned Some(v) in another object and left o None.
C5_Witness ==
  /\ last.op = "Option.take"
  /\ last.ret.n # last.self
  /\ IsSome(heap, last.ret.n)
  /\ IsNone(heap, last.self)

\* C6: insert(v) leaves o Some(v) and returns v; getOrInsert(v) does the same
\* when o was None and leaves o unchanged, returning its payload, when o was
\* Some; getOrInsertWith(fn) is getOrInsert(fn()) when o was None and does
\* not call fn when o was Some.
C6_Insert ==
  [][/\ Did("Option.insert") =>
          /\ heap'[last'.self] = OptionCtor(SomeInit(last'.arg))
          /\ last'.ret = last'.arg
     /\ Did("Option.getOrInsert") =>
          IF IsNone(heap, last'.self)
          THEN /\ heap'[last'.self] = OptionCtor(SomeInit(last'.arg))
               /\ last'.ret = last'.arg
          ELSE /\ heap'[last'.self] = heap[last'.self]
               /\ last'.ret = heap[last'.self].internal.value
     /\ Did("Option.getOrInsertWith") =>
          IF IsNone(heap, last'.self)
          THEN /\ last'.fn.calls = 1
               /\ heap'[last'.self] = OptionCtor(SomeInit(Num(last'.arg.n)))
               /\ last'.ret = Num(last'.arg.n)
          ELSE /\ last'.fn.calls = 0
               /\ heap'[last'.self] = heap[last'.self]
               /\ last'.ret = heap[last'.self].internal.value
     /\ last'.op \in {"Option.insert", "Option.getOrInsert", "Option.getOrInsertWith"}
          => ~last'.err.thrown /\ Frame({last'.self})]_vars

\* getOrInsertWith(() => w) on Some(v), v # w, has returned v without
\* calling its argument.
C6_Witness ==
  /\ last.op = "Option.getOrInsertWith"
  /\ last.fn.calls = 0
  /\ last.ret # Num(last.arg.n)
  /\ heap[last.self].internal = SomeInit(last.ret)

\* C7: Some(v).okOr(e) is Ok(v) and None.okOr(e) is Err(e); r.ok() is Some(v)
\* when r is Ok(v) and None when r is Err; r.err() is Some(e) when r is
\* Err(e) and None when r is Ok; unwrap() gives back the payload of a Some or
\* an Ok and unwrapErr() that of an Err.
C7_Conversions ==
  [][/\ Did("Option.okOr") =>
          /\ NewObject(last'.ret)
          /\ LET int == heap[last'.self].internal IN
               Holds(heap', last'.ret, "Result",
                     IF int.type = "Some" THEN OkInit(int.value)
                     ELSE ErrInit(last'.arg))
     /\ Did("Result.ok") =>
          /\ NewObject(last'.ret)
          /\ LET int == heap[last'.self].internal IN
               Holds(heap', last'.ret, "Option",
                     IF int.type = "Ok" THEN SomeInit(int.value) ELSE NoneInit)
     /\ Did("Result.err") =>
          /\ NewObject(last'.ret)
          /\ LET int == heap[last'.self].internal IN
               Holds(heap', last'.ret, "Option",
                     IF int.type = "Err" THEN SomeInit(int.error) ELSE NoneInit)
     /\ (Did("Option.unwrap") /\ IsSome(heap, last'.self)) =>
          last'.ret = heap[last'.self].internal.value /\ ~last'.err.thrown
     /\ (Did("Result.unwrap") /\ IsOk(heap, last'.self)) =>
          last'.ret = heap[last'.self].internal.value /\ ~last'.err.thrown
     /\ (Did("Result.unwrapErr") /\ IsErr(heap, last'.self)) =>
          last'.ret = heap[last'.self].internal.error /\ ~last'.err.thrown
     /\ last'.op \in {"Option.okOr", "Result.ok", "Result.err"} => Frame({})]_vars

\* With a Some(v) and the Ok(v) made after it on the heap, ok() on that Ok(v)
\* has returned a Some(v).
C7_Witness ==
  /\ last.op = "Result.ok"
  /\ IsOk(heap, last.self)
  /\ heap[last.ret.n].internal = SomeInit(heap[last.self].internal.value)
  /\ \E o \in Options(heap) :
       o < last.self /\ heap[o].internal = heap[last.ret.n].internal

\* C8: every Option is in exactly one of its two variants, isSome() and
\* isNone() disagree on it, a Some holds a payload and a None holds none;
\* every Result is Ok or Err, isOk() and isErr() disagree on it, and it holds
\* the payload of its variant and no other.
VariantExclusive(h, o) ==
  LET int == h[o].internal IN
    IF h[o].cls = "Option"
    THEN /\ int.type \in {"None", "Some"}
         /\ IsSome(h, o) # IsNone(h, o)
         /\ DOMAIN int = (IF IsSome(h, o) THEN {"type", "value"} ELSE {"type"})
    ELSE /\ int.type \in {"Ok", "Err"}
         /\ IsOk(h, o) # IsErr(h, o)
         /\ DOMAIN int = (IF IsOk(h, o) THEN {"type", "value"} ELSE {"type", "error"})

C8_VariantExclusivity == \A o \in Live(heap) : VariantExclusive(heap, o)

\* unwrap() has thrown on a None while another Option is Some.
C8_Witness ==
  /\ last.op = "Option.unwrap"
  /\ last.err.thrown
  /\ IsNone(heap, last.self)
  /\ \E p \in Options(heap) : IsSome(heap, p)

\* C9: neither intoIter() nor next() changes a container; the first next()
\* of a generator whose container is as it was at intoIter() yields the
\* payload of a Some or an Ok and ends at once on a None or an Err; every
\* later next() yields nothing more.
C9_Iteration ==
  [][/\ last'.op \in {"Option.intoIter", "Result.intoIter"} =>
          /\ heap' = heap
          /\ iter' = [obj |-> last'.self, state |-> "suspendedStart",
                      out |-> <<>>, snap |-> heap[last'.self].internal]
     /\ Did("Generator.next") =>
          /\ heap' = heap
          /\ iter'.obj = iter.obj /\ iter'.snap = iter.snap
          /\ (iter.state = "suspendedStart" /\ heap[iter.obj].internal = iter.snap) =>
               IF iter.snap.type \in {"Some", "Ok"}
               THEN /\ last'.ret = iter.snap.value
                    /\ iter'.out = <<iter.snap.value>>
                    /\ iter'.state = "suspendedYield"
               ELSE /\ last'.ret = IterDone
                    /\ iter'.out = <<>>
                    /\ iter'.state = "completed"
          /\ iter.state \in {"suspendedYield", "completed"} =>
               /\ last'.ret = IterDone
               /\ iter'.out = iter.out
               /\ iter'.state = "completed"]_vars

\* A generator made from Some(v) has yielded exactly v and ended, and the
\* container is still Some(v).
C9_Witness ==
  /\ iter.state = "completed"
  /\ iter.snap.type = "Some"
  /\ iter.out = <<iter.snap.value>>
  /\ heap[iter.obj].internal = iter.snap
  /\ last.op = "Generator.next" /\ last.ret = IterDone

\* C10: unwrap()/expect(msg) on None or Err(e), and unwrapErr()/expectErr(msg)
\* on Ok(v), throw; the text of the error holds msg (expect, expectErr) and,
\* for a Result, the payload as a string; on the other variant the call
\* returns the payload and throws nothing; either way no container changes.
InText(text, str) == \E i \in DOMAIN text : text[i] = str
AsString(v) == IF v.k = "num" THEN ToString(v.n) ELSE "[object Object]"
Extractors ==
  {"Option.unwrap", "Option.expect", "Result.unwrap", "Result.expect",
   "Result.unwrapErr", "Result.expectErr"}

C10_Extraction ==
  [][last'.op \in Extractors =>
       LET int == heap[last'.self].internal
           op == last'.op
           wrong == IF op \in {"Option.unwrap", "Option.expect"} THEN "None"
                    ELSE IF op \in {"Result.unwrap", "Result.expect"} THEN "Err"
                    ELSE "Ok"
       IN  /\ heap' = heap
           /\ IF int.type = wrong
              THEN /\ last'.err.thrown
                   /\ last'.ret = Undefined
                   /\ op \in {"Option.expect", "Result.expect", "Result.expectErr"}
                        => InText(last'.err.text, last'.msg)
                   /\ int.type = "Err" => InText(last'.err.text, AsString(int.error))
                   /\ int.type = "Ok" => InText(last'.err.text, AsString(int.value))
              ELSE /\ ~last'.err.thrown
                   /\ last'.ret = (IF int.type = "Err" THEN int.error ELSE int.value)]_vars

\* expect(msg) has thrown on an Err(e) with a text holding msg and e.
C10_Witness ==
  /\ last.op = "Result.expect"
  /\ last.err.thrown
  /\ IsErr(heap, last.self)
  /\ InText(last.err.text, last.msg)
  /\ InText(last.err.text, AsString(heap[last.self].internal.error))

\* The call has returned what the callback fn returns for the argument v:
\* the container the callback holds, or a new one it made around v.
ReturnedFrom(fn, v) ==
  IF fn.k = "fn:const"
  THEN last'.ret = Ref(fn.n) /\ heap' = heap
  ELSE /\ NewObject(last'.ret)
       /\ Frame({})
       /\ heap'[last'.ret.n] =
            (IF fn.k = "fn:Some" THEN OptionCtor(SomeInit(v))
             ELSE IF fn.k = "fn:None" THEN OptionCtor(NoneInit)
             ELSE IF fn.k = "fn:Ok" THEN ResultCtor(OkInit(v))
             ELSE ResultCtor(ErrInit(v)))

\* The call has returned a container equal to its receiver, without calling
\* the callback and without changing any container.
ShortCircuited ==
  /\ last'.fn.calls = 0
  /\ heap' = heap
  /\ last'.ret.k = "ref"
  /\ heap'[last'.ret.n] = heap[last'.self]

\* The call has called the callback once, with v, and returned its result.
Bound(v) ==
  /\ last'.fn = [calls |-> 1, arg |-> v]
  /\ ReturnedFrom(last'.arg, v)

\* C11: Option.andThen(fn) calls fn once with the payload and returns its
\* result on Some, and returns None without calling fn on None; orElse(fn)
\* calls fn once and returns its result on None, and returns a container
\* equal to the receiver without calling fn on Some.  Result.andThen and
\* Result.orElse do the same on Ok / Err, orElse's fn receiving the error.
C11_Bind ==
  [][/\ Did("Option.andThen") =>
          IF IsSome(heap, last'.self)
          THEN Bound(heap[last'.self].internal.value)
          ELSE ShortCircuited /\ IsNone(heap', last'.ret.n)
     /\ Did("Option.orElse") =>
          IF IsNone(heap, last'.self) THEN Bound(Undefined) ELSE ShortCircuited
     /\ Did("Result.andThen") =>
          IF IsOk(heap, last'.self)
          THEN Bound(heap[last'.self].internal.value)
          ELSE ShortCircuited
     /\ Did("Result.orElse") =>
          IF IsErr(heap, last'.self)
          THEN Bound(heap[last'.self].internal.error)
          ELSE ShortCircuited
     /\ last'.op \in {"Option.andThen", "Option.orElse", "Result.andThen",
                      "Result.orElse"} => ~last'.err.thrown]_vars

\* orElse(e => Result.Ok(e)) on Err(e) has called its argument once with e
\* and returned the new Ok(e).
C11_Witness ==
  /\ last.op = "Result.orElse"
  /\ last.arg.k = "fn:Ok"
  /\ IsErr(heap, last.self)
  /\ last.fn = [calls |-> 1, arg |-> heap[last.self].internal.error]
  /\ heap[last.ret.n].internal = OkInit(heap[last.self].internal.error)

\* C12: the first next() of a generator yields what the container holds at
\* that moment, not at intoIter(): nothing right after take(), w right after
\* insert(w) or replace(w) on the container; a mutator never touches the
\* generator, and a next() after the first yields nothing whatever the
\* container has become.
C12_LazyRead ==
  [][/\ (Did("Generator.next") /\ iter.state = "suspendedStart") =>
          LET cur == heap[iter.obj].internal IN
            /\ IF cur.type \in {"Some", "Ok"}
               THEN last'.ret = cur.value /\ iter'.out = <<cur.value>>
               ELSE last'.ret = IterDone /\ iter'.out = <<>>
            /\ (last.op = "Option.take" /\ last.self = iter.obj)
                 => last'.ret = IterDone
            /\ (last.op \in {"Option.insert", "Option.replace"} /\ last.self = iter.obj)
                 => last'.ret = last.arg
     /\ (Did("Generator.next") /\ iter.state \in {"suspendedYield", "completed"}) =>
          last'.ret = IterDone /\ iter'.out = iter.out
     /\ last'.op \in Mutators => iter' = iter]_vars

\* A generator made from a Some(v) has ended without yielding: the container
\* was emptied before the first next().
C12_Witness ==
  /\ iter.snap.type = "Some"
  /\ iter.state = "completed"
  /\ iter.out = <<>>
  /\ IsNone(heap, iter.obj)
  /\ last.op = "Generator.next"
====
